---- MODULE Spec2Model ----
(***************************************************************************)
(* Birthday-wisher backend (src/server.js, src/models_Wish.js,             *)
(* src/models/models_feedback.js).  server.js holds two revisions of the   *)
(* server, lines 1-215 (revision 1) and lines 217-414 (revision 2); the    *)
(* variable rev says which one is running.  One action models one request  *)
(* from the CORS gate to the response.                                     *)
(***************************************************************************)
EXTENDS Integers, Sequences, FiniteSets, TLC

\* ---------------------------------------------------------------- bounds
MaxWishes == 2      \* Wish documents created in one run
MaxFeedback == 1    \* Feedback documents created in one run
MaxClock == 1       \* largest value of the millisecond clock
MaxFiles == 2       \* files the Upload Store holds

\* ------------------------------------------------------ program constants
\* mutant: the images field takes one file more
MaxImages_OneMore == 3 + 1

MaxImages == 3      \* upload.fields: { name: "images", maxCount: 3 }
MaxVideo == 1       \* upload.fields: { name: "video", maxCount: 1 }

VARIABLES
  rev,          \* revision of server.js that runs (1 or 2)
  pc,           \* "init", "connecting", "listening", "exited", "crashed"
  attempts,     \* calls of mongoose.connect so far
  connected,    \* the store connection has been established
  exitCode,     \* the code the process ended with, Null while it runs
  now,          \* Date.now()
  wishes,       \* Wishes collection, in insertion order; _id = index
  feedbacks,    \* Feedback collection, in insertion order
  files,        \* Upload Store: the file names present in uploadsDir
  stream,       \* read stream opened by GET /video/:id and not yet read
  issued,       \* history: 200 responses of POST /api/wish
  res           \* the last response sent, with the route that sent it

vars == <<rev, pc, attempts, connected, exitCode, now, wishes, feedbacks, files,
          stream, issued, res>>

\* ------------------------------------------------------------- JS values
Undefined == [t |-> "undefined"]
Null == [t |-> "null"]
Str(s) == [t |-> "string", s |-> s]
Num(n) == [t |-> "number", n |-> n]

IsString(v) == v.t = "string"

\* JavaScript truthiness, as used by !name, !feedback, !wish.video
Truthy(v) ==
  CASE v.t = "undefined" -> FALSE
    [] v.t = "null" -> FALSE
    [] v.t = "string" -> v.s # <<>>
    [] v.t = "number" -> v.n # 0
    [] OTHER -> TRUE

IsSpace(c) == c = " "

RECURSIVE TrimStart(_)
TrimStart(s) ==
  IF s # <<>> /\ IsSpace(Head(s)) THEN TrimStart(Tail(s)) ELSE s

RECURSIVE TrimEnd(_)
TrimEnd(s) ==
  IF s # <<>> /\ IsSpace(s[Len(s)]) THEN TrimEnd(SubSeq(s, 1, Len(s) - 1)) ELSE s

\* String.prototype.trim
Trim(s) == TrimEnd(TrimStart(s))

\* originalname.replace(/\s+/g, "_"): every maximal run of whitespace
\* becomes one underscore
RECURSIVE Sanitize(_)
Sanitize(s) ==
  IF s = <<>> THEN <<>>
  ELSE IF IsSpace(Head(s)) THEN <<"_">> \o Sanitize(TrimStart(s))
  ELSE <<Head(s)>> \o Sanitize(Tail(s))

RECURSIVE LastDot(_)
LastDot(s) ==
  IF s = <<>> THEN 0
  ELSE IF s[Len(s)] = "." THEN Len(s)
  ELSE LastDot(SubSeq(s, 1, Len(s) - 1))

\* path.extname: from the last dot to the end; empty when there is no dot
\* or the only dot starts the name
ExtName(s) == IF LastDot(s) <= 1 THEN <<>> ELSE SubSeq(s, LastDot(s), Len(s))

Digits == <<"0", "1", "2", "3", "4", "5", "6", "7", "8", "9">>

\* Number to string, as Date.now() + "..." converts it
RECURSIVE NumToString(_)
NumToString(n) ==
  IF n < 10 THEN <<Digits[n + 1]>>
  ELSE NumToString(n \div 10) \o <<Digits[(n % 10) + 1]>>

\* ------------------------------------------------------------ input sets
NoOrigin == "(no Origin header)"
Origins == {NoOrigin, "http://localhost:5173", "https://evil.example"}

Fields == {"name", "message", "sender"}

\* request bodies of POST /api/wish: all three fields, one field missing or
\* empty, and no field at all
FullBody == [name |-> Str(<<"n">>), message |-> Str(<<"m">>), sender |-> Str(<<"s">>)]
Bodies ==
  {FullBody, [f \in Fields |-> Undefined]}
    \cup {[FullBody EXCEPT ![f] = v] : f \in Fields, v \in {Undefined, Str(<<>>)}}

\* a body with all three fields reaches Wish.create
Complete(body) == \A f \in Fields : Truthy(body[f])

VideoNames == {<<"c", ".", "m">>}

\* Sequences over S of length at most n
SeqsUpTo(S, n) == UNION {[1..k -> S] : k \in 0..n}

\* the file parts of one multipart request: up to one more than multer takes
ImagePattern == <<<<"a", " ", "b", ".", "p">>, <<"a", "_", "b", ".", "p">>>>
ImageLists ==
  {[i \in 1..k |-> ImagePattern[((i - 1) % Len(ImagePattern)) + 1]] :
     k \in 0..(MaxImages + 1)}
VideoLists == SeqsUpTo(VideoNames, MaxVideo + 1)

\* requests to POST /api/wish: a JSON body carries no file; a multipart body
\* carries any files when it is complete and, here, no file, one image or
\* one image too many when it is not
WishRequests ==
  {r \in [ctype : {"multipart", "json"}, body : Bodies, images : ImageLists,
          video : VideoLists] :
     /\ r.ctype = "json" => r.images = <<>> /\ r.video = <<>>
     /\ \/ Complete(r.body)
        \/ r.images = <<>> /\ r.video = <<>>
        \/ /\ r.body = [FullBody EXCEPT !.name = Undefined]
           /\ Len(r.images) \in {1, MaxImages + 1} /\ r.video = <<>>}

ObjectId(n) == <<"oid", n>>
\* ids a client may send: well-formed ObjectIds (of documents or not) and
\* strings that are no ObjectId
RequestIds == {ObjectId(n) : n \in 1..(MaxWishes + 1)} \cup {<<"raw", "abc">>}

FeedbackVals ==
  {Undefined, Num(5), Num(0), Str(<<>>), Str(<<" ", " ">>), Str(<<"G">>),
   Str(<<" ", "G", " ">>)}

\* ------------------------------------------------------------- responses
JsonError(route, status, msg, store) ==
  [route |-> route, status |-> status, type |-> "json",
   body |-> [error |-> msg], stage |-> "handler", store |-> store]

JsonOk(route, body) ==
  [route |-> route, status |-> 200, type |-> "json", body |-> body,
   stage |-> "handler", store |-> "ok"]

\* An error handed to next(err) with no error-handling middleware installed:
\* the framework's default handler answers 500 with an HTML page
FrameworkError(route, msg, stage) ==
  [route |-> route, status |-> 500, type |-> "html", body |-> [page |-> msg],
   stage |-> stage, store |-> "none"]

NoResponse ==
  [route |-> "none", status |-> 0, type |-> "none", body |-> [none |-> TRUE],
   stage |-> "none", store |-> "none"]

NoStream == [open |-> FALSE]

\* ------------------------------------------------------------- CORS gate
allowedOrigins ==
  {"http://localhost:5173", "https://birthday-wisher-frontend-jylu.vercel.app"}

CorsAllows(origin) == origin = NoOrigin \/ origin \in allowedOrigins

\* -------------------------------------------------------- multer storage
\* diskStorage filename callback, at clock value ts
Filename(ts, orig) ==
  IF rev = 1 THEN NumToString(ts) \o ExtName(orig)
  ELSE NumToString(ts) \o <<"-">> \o Sanitize(orig)

Min(a, b) == IF a < b THEN a ELSE b

\* upload.fields: multer takes a field's files up to its maxCount, the next
\* one is an unexpected file
Taken(list, maxCount) == SubSeq(list, 1, Min(Len(list), maxCount))

MulterAccepts(imgs, vids) ==
  Taken(imgs, MaxImages) = imgs /\ Taken(vids, MaxVideo) = vids

\* The names of the files multer writes before it finishes or aborts, at
\* clock value ts: the images come first, the video after them
WrittenImages(imgs, ts) ==
  [i \in 1..Len(Taken(imgs, MaxImages)) |-> Filename(ts, imgs[i])]

WrittenVideos(imgs, vids, ts) ==
  IF Taken(imgs, MaxImages) # imgs THEN <<>>
  ELSE [i \in 1..Len(Taken(vids, MaxVideo)) |-> Filename(ts, vids[i])]

Range(s) == {s[i] : i \in 1..Len(s)}

\* ------------------------------------------------------------------ URLs
Host == <<"http:", "/", "/", "host">>

UploadUrl(filename) == Str(Host \o <<"/", "uploads", "/">> \o filename)

RECURSIVE LastSlash(_)
LastSlash(s) ==
  IF s = <<>> THEN 0
  ELSE IF s[Len(s)] = "/" THEN Len(s)
  ELSE LastSlash(SubSeq(s, 1, Len(s) - 1))

\* path.basename
Basename(s) == SubSeq(s, LastSlash(s) + 1, Len(s))

\* ------------------------------------------------------------ Wish model
\* WishSchema: name, message, sender required (a required string must be
\* non-empty)
WishValidates(doc) ==
  /\ IsString(doc.name) /\ doc.name.s # <<>>
  /\ IsString(doc.message) /\ doc.message.s # <<>>
  /\ IsString(doc.sender) /\ doc.sender.s # <<>>

WishDoc(id, body, images, video, t) ==
  [_id |-> id, name |-> body.name, message |-> body.message,
   sender |-> body.sender, images |-> images, video |-> video, createdAt |-> t]

\* the fields the handlers put in a response
PublicFields(w) ==
  [id |-> w._id, name |-> w.name, message |-> w.message, sender |-> w.sender,
   images |-> w.images, video |-> w.video, createdAt |-> w.createdAt]

\* mongoose.Types.ObjectId.isValid
IsValidObjectId(id) == id[1] = "oid"

\* mutant: the lookup ignores the id and returns the first document
FindById_First(id) ==
  IF wishes # <<>> THEN [t |-> "doc", doc |-> wishes[1]] ELSE Null

\* Wish.findById: the document (as [t |-> "doc", doc |-> ...]) or Null
FindById(id) ==
  IF \E i \in 1..Len(wishes) : wishes[i]._id = id
  THEN [t |-> "doc", doc |-> CHOOSE w \in Range(wishes) : w._id = id]
  ELSE Null

\* ------------------------------------------------------------------ Init
Init ==
  /\ rev \in {1, 2}
  /\ pc = "init"
  /\ attempts = 0
  /\ connected = FALSE
  /\ exitCode = Null
  /\ now = 0
  /\ wishes = <<>>
  /\ feedbacks = <<>>
  /\ files = {}
  /\ stream = NoStream
  /\ issued = {}
  /\ res = NoResponse

store == <<wishes, feedbacks>>
proc == <<rev, pc, attempts, connected, exitCode>>

\* ---------------------------------------------------------------- startup
\* connectDB() up to its await: mongoose.connect is called
ConnectDB ==
  /\ pc = "init"
  /\ pc' = "connecting"
  /\ attempts' = attempts + 1
  /\ UNCHANGED <<rev, connected, exitCode, now, store, files, stream, issued, res>>

\* mutant: the listener is started whatever the connection attempt gave
ConnectSettled_AlwaysListen ==
  /\ pc = "connecting"
  /\ \E ok \in BOOLEAN :
       /\ connected' = ok
       /\ pc' = "listening"
       /\ exitCode' = Null
  /\ UNCHANGED <<rev, attempts, now, store, files, stream, issued, res>>

\* the await settles: app.listen on success, process.exit(1) on failure
ConnectSettled ==
  /\ pc = "connecting"
  /\ \E ok \in BOOLEAN :
       /\ connected' = ok
       /\ pc' = IF ok THEN "listening" ELSE "exited"
       /\ exitCode' = IF ok THEN Null ELSE Num(1)
  /\ UNCHANGED <<rev, attempts, now, store, files, stream, issued, res>>

\* a request is taken only by a running listener; requests are modelled one
\* at a time
Serving == pc = "listening" /\ ~stream.open

\* the cors middleware, which runs before every route ("*"), rejects the
\* origin: callback(new Error(...))
CorsRejected ==
  /\ Serving
  /\ \E origin \in Origins :
       /\ ~CorsAllows(origin)
       /\ res' = FrameworkError("*", "Not allowed by CORS", "cors")
  /\ UNCHANGED <<proc, now, store, files, stream, issued>>

\* ------------------------------------------------------- POST /api/wish
RWish == "POST /api/wish"

\* mutant: the handler's presence check leaves out sender
WishHandler_NoSenderCheck(body, files_, storeOk) ==
  IF ~Truthy(body.name) \/ ~Truthy(body.message)
  THEN [res |-> JsonError(RWish, 400, "name, message & sender are required",
                          "none"),
        created |-> <<>>]
  ELSE IF files_ = Undefined
  THEN [res |-> JsonError(RWish, 500, "TypeError", "none"), created |-> <<>>]
  ELSE
    LET images == [i \in 1..Len(files_.images) |-> UploadUrl(files_.images[i])]
        video == IF files_.video # <<>> THEN UploadUrl(files_.video[1]) ELSE Null
        doc == WishDoc(ObjectId(Len(wishes) + 1), body, images, video, now)
    IN IF ~storeOk
       THEN [res |-> JsonError(RWish, 500, "store error", "failed"),
             created |-> <<>>]
       ELSE IF ~WishValidates(doc)
       THEN [res |-> JsonError(RWish, 500, "Wish validation failed", "ok"),
             created |-> <<>>]
       ELSE [res |-> JsonOk(RWish, [link |-> <<"frontend", "/wish/", doc._id>>]
                                     @@ PublicFields(doc)),
             created |-> <<doc>>]

\* The route handler.  files_ is Undefined when multer did not parse the body
\* (req.files is then undefined and req.files["images"] throws a TypeError),
\* else [images |-> file names, video |-> file names].
\* Returns the response and the documents created (none or one).
WishHandler(body, files_, storeOk) ==
  IF ~Truthy(body.name) \/ ~Truthy(body.message) \/ ~Truthy(body.sender)
  THEN [res |-> JsonError(RWish, 400, "name, message & sender are required",
                          "none"),
        created |-> <<>>]
  ELSE IF files_ = Undefined
  THEN [res |-> JsonError(RWish, 500, "TypeError", "none"), created |-> <<>>]
  ELSE
    LET images == [i \in 1..Len(files_.images) |-> UploadUrl(files_.images[i])]
        video == IF files_.video # <<>> THEN UploadUrl(files_.video[1]) ELSE Null
        doc == WishDoc(ObjectId(Len(wishes) + 1), body, images, video, now)
    IN IF ~storeOk
       THEN [res |-> JsonError(RWish, 500, "store error", "failed"),
             created |-> <<>>]
       ELSE IF ~WishValidates(doc)
       THEN [res |-> JsonError(RWish, 500, "Wish validation failed", "ok"),
             created |-> <<>>]
       ELSE [res |-> JsonOk(RWish, [link |-> <<"frontend", "/wish/", doc._id>>]
                                     @@ PublicFields(doc)),
             created |-> <<doc>>]

\* upload.fields(...) followed by the handler, for request r: the response
\* and the collections and Upload Store it leaves
PostWishOutcome(r, storeOk) ==
  LET parsed == r.ctype = "multipart"
      wi == IF parsed THEN WrittenImages(r.images, now) ELSE <<>>
      wv == IF parsed THEN WrittenVideos(r.images, r.video, now) ELSE <<>>
      written == Range(wi) \cup Range(wv)
      out == WishHandler(r.body,
                         IF parsed THEN [t |-> "files", images |-> wi, video |-> wv]
                         ELSE Undefined,
                         storeOk)
  IN IF MulterAccepts(r.images, r.video)
     THEN [res |-> out.res, wishes |-> wishes \o out.created,
           files |-> files \cup written]
     ELSE \* multer aborts: it removes the files it wrote and passes the
          \* error to next()
          [res |-> FrameworkError(RWish, "Unexpected field", "upload"),
           wishes |-> wishes, files |-> files \ written]

PostWish ==
  /\ Serving
  /\ Len(wishes) < MaxWishes
  /\ \E origin \in Origins : CorsAllows(origin)
  /\ \E r \in WishRequests :
     \E storeOk \in (IF Complete(r.body) THEN BOOLEAN ELSE {TRUE}) :
       LET o == PostWishOutcome(r, storeOk)
       IN /\ Cardinality(o.files) <= MaxFiles
          /\ res' = o.res
          /\ wishes' = o.wishes
          /\ files' = o.files
          /\ issued' = IF o.res.status = 200 THEN issued \cup {o.res.body}
                       ELSE issued
  /\ UNCHANGED <<proc, now, feedbacks, stream>>

\* ---------------------------------------------------- GET /api/wish/:id
RGet == "GET /api/wish/:id"

\* Wish.findOne({ _id: id }) with an id that is no ObjectId: the query casts
\* _id to the schema's type and fails with a CastError
FindOneRaw(id) == [t |-> "throws", error |-> "Cast to ObjectId failed"]

\* the lookup of both handlers that take an id: the document, Null, or an
\* error thrown by the store layer
Lookup(id, storeOk) ==
  IF ~IsValidObjectId(id) THEN FindOneRaw(id)
  ELSE IF ~storeOk THEN [t |-> "throws", error |-> "store error"]
  ELSE FindById(id)

GetWishResponse(id, storeOk) ==
  IF rev = 2 /\ ~IsValidObjectId(id)
  THEN JsonError(RGet, 400, "Invalid wish ID", "none")
  ELSE LET wish == Lookup(id, storeOk)
       IN IF wish.t = "throws"
          THEN JsonError(RGet, 500, wish.error,
                         IF IsValidObjectId(id) THEN "failed" ELSE "none")
          ELSE IF wish = Null
          THEN JsonError(RGet, 404, "Wish not found", "ok")
          ELSE JsonOk(RGet, PublicFields(wish.doc))

GetWish ==
  /\ Serving
  /\ \E origin \in Origins : CorsAllows(origin)
  /\ \E id \in RequestIds, storeOk \in BOOLEAN :
       res' = GetWishResponse(id, storeOk)
  /\ UNCHANGED <<proc, now, store, files, stream, issued>>

\* ------------------------------------------------------ GET /api/wishes
RList == "GET /api/wishes"

\* mutant: the sort is ascending, sort({ createdAt: 1 })
SortedLists_Ascending ==
  {[i \in 1..Len(wishes) |-> wishes[p[i]]] :
     p \in {q \in [1..Len(wishes) -> 1..Len(wishes)] :
              /\ \A i, j \in 1..Len(wishes) : i # j => q[i] # q[j]
              /\ \A i, j \in 1..Len(wishes) :
                   i < j => wishes[q[i]].createdAt <= wishes[q[j]].createdAt}}

\* the orders Wish.find().sort({ createdAt: -1 }) may return the collection
\* in: createdAt descending, documents of equal createdAt in any order
SortedLists ==
  {[i \in 1..Len(wishes) |-> wishes[p[i]]] :
     p \in {q \in [1..Len(wishes) -> 1..Len(wishes)] :
              /\ \A i, j \in 1..Len(wishes) : i # j => q[i] # q[j]
              /\ \A i, j \in 1..Len(wishes) :
                   i < j => wishes[q[i]].createdAt >= wishes[q[j]].createdAt}}

ListResponses(storeOk) ==
  IF ~storeOk THEN {JsonError(RList, 500, "store error", "failed")}
  ELSE {JsonOk(RList, [list |-> l]) : l \in SortedLists}

ListWishes ==
  /\ Serving
  /\ \E origin \in Origins : CorsAllows(origin)
  /\ \E storeOk \in BOOLEAN : res' \in ListResponses(storeOk)
  /\ UNCHANGED <<proc, now, store, files, stream, issued>>

\* --------------------------------------------------------- GET /video/:id
RVideo == "GET /video/:id"

\* mutant: the handler does not test fs.existsSync(filePath)
VideoOutcome_NoExistsCheck(id, storeOk) ==
  IF rev = 2 /\ ~IsValidObjectId(id)
  THEN [res |-> JsonError(RVideo, 400, "Invalid wish ID", "none"),
        stream |-> NoStream]
  ELSE LET wish == Lookup(id, storeOk)
       IN IF wish.t = "throws"
          THEN [res |-> JsonError(RVideo, 500, wish.error,
                                  IF IsValidObjectId(id) THEN "failed" ELSE "none"),
                stream |-> NoStream]
          ELSE IF wish = Null \/ ~Truthy(wish.doc.video)
          THEN [res |-> JsonError(RVideo, 404, "Video not found", "ok"),
                stream |-> NoStream]
          ELSE [res |-> [route |-> RVideo, status |-> 0, type |-> "video/mp4",
                         body |-> [none |-> TRUE], stage |-> "handler",
                         store |-> "ok"],
                stream |-> [open |-> TRUE, file |-> Basename(wish.doc.video.s)]]

\* The handler up to fs.createReadStream(filePath).pipe(res): the response,
\* or the stream it leaves open with the response still to be sent
VideoOutcome(id, storeOk) ==
  IF rev = 2 /\ ~IsValidObjectId(id)
  THEN [res |-> JsonError(RVideo, 400, "Invalid wish ID", "none"),
        stream |-> NoStream]
  ELSE LET wish == Lookup(id, storeOk)
       IN IF wish.t = "throws"
          THEN [res |-> JsonError(RVideo, 500, wish.error,
                                  IF IsValidObjectId(id) THEN "failed" ELSE "none"),
                stream |-> NoStream]
          ELSE IF wish = Null \/ ~Truthy(wish.doc.video)
          THEN [res |-> JsonError(RVideo, 404, "Video not found", "ok"),
                stream |-> NoStream]
          ELSE IF Basename(wish.doc.video.s) \notin files
          THEN [res |-> JsonError(RVideo, 404, "File missing", "ok"),
                stream |-> NoStream]
          ELSE [res |-> [route |-> RVideo, status |-> 0, type |-> "video/mp4",
                         body |-> [none |-> TRUE], stage |-> "handler",
                         store |-> "ok"],
                stream |-> [open |-> TRUE, file |-> Basename(wish.doc.video.s)]]

GetVideo ==
  /\ Serving
  /\ \E origin \in Origins : CorsAllows(origin)
  /\ \E id \in RequestIds, storeOk \in BOOLEAN :
       LET o == VideoOutcome(id, storeOk)
       IN res' = o.res /\ stream' = o.stream
  /\ UNCHANGED <<proc, now, store, files, issued>>

\* The read stream opens its file.  When the file is there its bytes are
\* piped with status 200; when it is not, the stream emits 'error', which
\* has no listener: the error is thrown and the process ends.
StreamRead ==
  /\ pc = "listening"
  /\ stream.open
  /\ stream' = NoStream
  /\ IF stream.file \in files
     THEN /\ res' = [res EXCEPT !.status = 200, !.body = [bytes |-> stream.file]]
          /\ UNCHANGED <<pc, exitCode>>
     ELSE /\ pc' = "crashed"
          /\ exitCode' = Num(1)
          /\ res' = res
  /\ UNCHANGED <<rev, attempts, connected, now, store, files, issued>>

\* ------------------------------------------------------ POST /api/feedback
RFeedback == "POST /api/feedback"

\* the handler's test of req.body.feedback: "reject", "accept", or "throws"
\* (calling trim on a value that has none is a TypeError)
FeedbackCheck(v) ==
  IF rev = 1
  THEN \* !feedback || feedback.trim() === ""
       IF ~Truthy(v) THEN "reject"
       ELSE IF ~IsString(v) THEN "throws"
       ELSE IF Trim(v.s) = <<>> THEN "reject" ELSE "accept"
  ELSE \* !feedback?.trim()
       IF v = Undefined \/ v = Null THEN "reject"
       ELSE IF ~IsString(v) THEN "throws"
       ELSE IF Trim(v.s) = <<>> THEN "reject" ELSE "accept"

\* mutant: the schema has no trim: true
FeedbackDoc_NoTrim(v) == [_id |-> ObjectId(Len(feedbacks) + 1), feedback |-> Str(v.s)]

\* feedbackSchema: feedback is a required String with trim: true (the
\* timestamps are not modelled)
FeedbackDoc(v) == [_id |-> ObjectId(Len(feedbacks) + 1), feedback |-> Str(Trim(v.s))]

FeedbackOutcome(v, storeOk) ==
  LET check == FeedbackCheck(v)
  IN IF check = "reject"
     THEN [res |-> JsonError(RFeedback, 400, "Feedback cannot be empty", "none"),
           feedbacks |-> feedbacks]
     ELSE IF check = "throws"
     THEN [res |-> JsonError(RFeedback, 500, "Failed to save feedback", "none"),
           feedbacks |-> feedbacks]
     ELSE IF ~storeOk \/ FeedbackDoc(v).feedback.s = <<>>
     THEN [res |-> JsonError(RFeedback, 500, "Failed to save feedback", "failed"),
           feedbacks |-> feedbacks]
     ELSE [res |-> JsonOk(RFeedback,
                          [message |-> "Thank you for your feedback!",
                           feedback |-> FeedbackDoc(v)]),
           feedbacks |-> Append(feedbacks, FeedbackDoc(v))]

PostFeedback ==
  /\ Serving
  /\ Len(feedbacks) < MaxFeedback
  /\ \E origin \in Origins : CorsAllows(origin)
  /\ \E v \in FeedbackVals, storeOk \in BOOLEAN :
       LET o == FeedbackOutcome(v, storeOk)
       IN res' = o.res /\ feedbacks' = o.feedbacks
  /\ UNCHANGED <<proc, now, wishes, files, stream, issued>>

\* ------------------------------------------------------------ environment
\* the clock advances
Tick ==
  /\ ~stream.open
  /\ now < MaxClock
  /\ now' = now + 1
  /\ UNCHANGED <<proc, store, files, stream, issued, res>>

\* a wish's video file is removed from the uploads directory from outside
\* the server
DeleteFile ==
  /\ \E f \in files :
       /\ \E i \in 1..Len(wishes) :
            Truthy(wishes[i].video) /\ Basename(wishes[i].video.s) = f
       /\ files' = files \ {f}
  /\ UNCHANGED <<proc, now, store, stream, issued, res>>

Next ==
  \/ ConnectDB
  \/ ConnectSettled
  \/ CorsRejected
  \/ PostWish
  \/ GetWish
  \/ ListWishes
  \/ GetVideo
  \/ StreamRead
  \/ PostFeedback
  \/ Tick
  \/ DeleteFile

Spec == Init /\ [][Next]_vars

\* ================================================================ claims
\* A claim about what a route answers is stated over the route's outcome
\* operator, for every request of the input sets, in every reachable state
\* in which requests are served.

MissingOrEmpty(v) == v = Undefined \/ v = Str(<<>>)
AllPresent(body) == \A f \in Fields : ~MissingOrEmpty(body[f])

\* C1: a POST /api/wish whose name, message or sender is missing or empty
\* (JSON or multipart, with files the upload middleware accepts) is answered
\* 400 by the handler and leaves the Wishes collection as it was.
C1_MissingFieldRejected ==
  Serving =>
    \A r \in WishRequests :
      (~AllPresent(r.body) /\ Len(r.images) <= 3 /\ Len(r.video) <= 1) =>
        LET o == PostWishOutcome(r, TRUE)
        IN o.res.status = 400 /\ o.wishes = wishes

\* a 400 from the handler has been sent while documents were stored
C1_Witness ==
  /\ res.route = RWish /\ res.status = 400 /\ res.stage = "handler"
  /\ wishes # <<>>

\* C2: a multipart POST /api/wish with name, message and sender and no file
\* is answered 200 with images = <<>> and video = null (the store operation
\* succeeding), and in every later state GET /api/wish/:id with the id of
\* such a response is answered 200 with the same name, message, sender,
\* images and video.
C2_CreatedThenRetrievable ==
  Serving =>
    /\ \A r \in WishRequests :
         (r.ctype = "multipart" /\ AllPresent(r.body) /\ r.images = <<>>
            /\ r.video = <<>>) =>
           LET o == PostWishOutcome(r, TRUE)
           IN /\ o.res.status = 200
              /\ o.res.body.images = <<>>
              /\ o.res.body.video = Null
              /\ o.res.body.name = r.body.name
              /\ o.res.body.message = r.body.message
              /\ o.res.body.sender = r.body.sender
    /\ \A b \in issued :
         (b.images = <<>> /\ b.video = Null) =>
           LET g == GetWishResponse(b.id, TRUE)
           IN /\ g.status = 200
              /\ g.body.id = b.id
              /\ g.body.name = b.name
              /\ g.body.message = b.message
              /\ g.body.sender = b.sender
              /\ g.body.images = b.images
              /\ g.body.video = b.video

\* a wish created without files has been fetched after a second wish was
\* created
C2_Witness ==
  /\ res.route = RGet /\ res.status = 200
  /\ Len(wishes) = 2
  /\ \E b \in issued :
       b.images = <<>> /\ b.video = Null /\ b.id = res.body.id /\ b.id = ObjectId(1)

\* C3: GET /api/wish/:id with an id that is no valid document id is answered
\* 400 in revision 2 and 404 in revision 1 (the fallback lookup), never 200
\* or 500.
C3_InvalidIdNever500 ==
  Serving =>
    \A id \in RequestIds, storeOk \in BOOLEAN :
      ~IsValidObjectId(id) =>
        GetWishResponse(id, storeOk).status = (IF rev = 2 THEN 400 ELSE 404)

CreatedBefore(a, b) == a._id[2] < b._id[2]

ExactlyOnce(l) ==
  /\ Len(l) = Len(wishes)
  /\ \A w \in Range(wishes) : Cardinality({i \in 1..Len(l) : l[i] = w}) = 1

\* C4 as stated: GET /api/wishes returns every Wish exactly once and a wish
\* created later never appears after a wish created earlier, also when both
\* were created at the same clock value.
C4_NewestFirstAlways ==
  Serving =>
    \A r \in ListResponses(TRUE) :
      /\ r.status = 200
      /\ ExactlyOnce(r.body.list)
      /\ \A i, j \in 1..Len(r.body.list) :
           i < j => ~CreatedBefore(r.body.list[i], r.body.list[j])

\* C4 as amended: GET /api/wishes returns every Wish exactly once, ordered by
\* createdAt descending; of two wishes with different createdAt the one
\* created later comes first; the order of wishes with equal createdAt is
\* not determined.
C4_NewestFirstByCreatedAt ==
  Serving =>
    \A r \in ListResponses(TRUE) :
      /\ r.status = 200
      /\ ExactlyOnce(r.body.list)
      /\ \A i, j \in 1..Len(r.body.list) :
           i < j =>
             /\ r.body.list[i].createdAt >= r.body.list[j].createdAt
             /\ r.body.list[i].createdAt # r.body.list[j].createdAt
                  => ~CreatedBefore(r.body.list[i], r.body.list[j])

\* a list of two wishes created at different clock values has been returned
C4_Witness ==
  /\ res.route = RList /\ res.status = 200
  /\ Len(res.body.list) = 2
  /\ res.body.list[1].createdAt > res.body.list[2].createdAt

\* C5: the files multer writes for a request get names that differ from one
\* another and from the name of every file the Upload Store holds.
C5_UniqueUploadNames ==
  Serving =>
    \A r \in WishRequests :
      r.ctype = "multipart" =>
        LET names == WrittenImages(r.images, now)
                       \o WrittenVideos(r.images, r.video, now)
        IN /\ Cardinality(Range(names)) = Len(names)
           /\ Range(names) \cap files = {}

\* C6: every error response is a JSON body {error: message}, and the process
\* ends only because the initial store connection failed.
C6_ErrorsAnsweredAsJson ==
  /\ res.status >= 400 => res.type = "json" /\ DOMAIN res.body = {"error"}
  /\ pc \in {"exited", "crashed"} => pc = "exited" /\ ~connected

NoSuchWish(id) == \A i \in 1..Len(wishes) : wishes[i]._id # id

HasNoVideo(id) == \E i \in 1..Len(wishes) : wishes[i]._id = id /\ wishes[i].video = Null

VideoFileAbsent(id) ==
  \E i \in 1..Len(wishes) :
    /\ wishes[i]._id = id
    /\ wishes[i].video # Null
    /\ wishes[i].video \notin {UploadUrl(f) : f \in files}

C7_NotFound ==
  Serving =>
    \A id \in RequestIds :
      (IsValidObjectId(id) /\ (NoSuchWish(id) \/ HasNoVideo(id) \/ VideoFileAbsent(id))) =>
        LET o == VideoOutcome(id, TRUE)
        IN o.res.status = 404 /\ o.res.type = "json" /\ ~o.stream.open

C7_OkOnlyWhenRead ==
  (res' # res /\ res'.route = RVideo /\ res'.status = 200) =>
    /\ res'.type = "video/mp4"
    /\ stream.open /\ stream.file \in files
    /\ \E i \in 1..Len(wishes) : wishes[i].video = UploadUrl(stream.file)

\* C7: GET /video/:id with a valid id is answered 404 when the wish does not
\* exist, has no video, or its video file is not in the Upload Store (the
\* store lookup succeeding); a 200 video/mp4 response is sent only in a step
\* that reads the video file of a wish while the file is present.
C7_VideoNotFoundOrStreamed == []C7_NotFound /\ [][C7_OkOnlyWhenRead]_vars

\* the file of a wish's video was deleted and the request answered 404
C7_Witness ==
  /\ res.route = RVideo /\ res.status = 404
  /\ res.body.error = "File missing"

EmptyAfterTrim(v) == v = Undefined \/ (IsString(v) /\ Trim(v.s) = <<>>)

\* C8 as stated (for string or missing feedback, the store operation
\* succeeding): 400 and nothing stored when feedback is missing or empty
\* after trimming; otherwise one document is stored and returned with 200,
\* and its feedback equals the submitted text.
C8_StoredEqualsSubmitted ==
  Serving =>
    \A v \in FeedbackVals :
      (v = Undefined \/ IsString(v)) =>
        LET o == FeedbackOutcome(v, TRUE)
        IN IF EmptyAfterTrim(v)
           THEN o.res.status = 400 /\ o.feedbacks = feedbacks
           ELSE /\ o.res.status = 200
                /\ Len(o.feedbacks) = Len(feedbacks) + 1
                /\ SubSeq(o.feedbacks, 1, Len(feedbacks)) = feedbacks
                /\ o.feedbacks[Len(o.feedbacks)] = o.res.body.feedback
                /\ o.res.body.feedback.feedback = v

\* C8 as amended: as above, but the stored feedback equals the submitted
\* text with its leading and trailing whitespace removed; and every stored
\* Feedback document has a feedback that is non-empty after trimming.
C8_StoredEqualsTrimmed ==
  /\ \A i \in 1..Len(feedbacks) : Trim(feedbacks[i].feedback.s) # <<>>
  /\ Serving =>
       \A v \in FeedbackVals :
         (v = Undefined \/ IsString(v)) =>
           LET o == FeedbackOutcome(v, TRUE)
           IN IF EmptyAfterTrim(v)
              THEN o.res.status = 400 /\ o.feedbacks = feedbacks
              ELSE /\ o.res.status = 200
                   /\ Len(o.feedbacks) = Len(feedbacks) + 1
                   /\ SubSeq(o.feedbacks, 1, Len(feedbacks)) = feedbacks
                   /\ o.feedbacks[Len(o.feedbacks)] = o.res.body.feedback
                   /\ o.res.body.feedback.feedback = Str(Trim(v.s))

\* a Feedback document has been stored and returned
C8_Witness ==
  /\ res.route = RFeedback /\ res.status = 200
  /\ feedbacks # <<>>
  /\ res.body.feedback = feedbacks[Len(feedbacks)]

C9_Startup ==
  /\ attempts <= 1
  /\ pc = "listening" => connected /\ attempts = 1
  /\ res # NoResponse => connected
  /\ pc = "exited" => ~connected /\ exitCode # Null /\ exitCode.n # 0 /\ res = NoResponse

C9_NoRetry == pc = "exited" => pc' = "exited" /\ attempts' = attempts

\* C9: the store connection is attempted once; the listener runs, and a
\* request is answered, only after the connection succeeded; when the
\* connection fails the process exits with a non-zero code, has served
\* nothing, and never connects again.
C9_ConnectThenListen == []C9_Startup /\ [][C9_NoRetry]_vars

\* the connection failed and the process exited
C9_Witness == pc = "exited" /\ attempts = 1 /\ exitCode = Num(1)

C10_WellFormed ==
  \A i \in 1..Len(wishes) :
    /\ \A f \in Fields : IsString(wishes[i][f]) /\ wishes[i][f].s # <<>>
    /\ Len(wishes[i].images) <= 3

C10_Immutable ==
  \A i \in 1..Len(wishes) : i <= Len(wishes') /\ wishes'[i] = wishes[i]

\* C10: every stored Wish has non-empty name, message and sender and at most
\* 3 images, and a stored Wish is never changed or removed.
C10_WishesWellFormedAndImmutable == []C10_WellFormed /\ [][C10_Immutable]_vars

\* a wish with three images is stored beside another wish
C10_Witness ==
  /\ Len(wishes) = 2
  /\ \E i \in 1..Len(wishes) : Len(wishes[i].images) = 3

====
